---- MODULE Spec2Model ----
(***************************************************************************)
(* Model of nauty-pet's automorphism-group adapter layer (src/autom.rs):   *)
(* the four operations try_into_autom, try_into_autom_nauty_dense,         *)
(* try_into_autom_nauty_sparse and try_into_autom_traces, the two result   *)
(* adapters From<statsblk> and From<TracesStats>, and Autom::grpsize.      *)
(*                                                                         *)
(* The graph encodings (crate::nauty_graph) and the three engines          *)
(* (densenauty, sparsenauty, Traces) are not part of src/autom.rs; they    *)
(* are modelled from their contracts: the encoding yields a label and a    *)
(* partition array of vertex-count length plus the adjacency, the engine   *)
(* populates the statistics record with the order and the orbit count of   *)
(* the automorphism group of what it was handed.                           *)
(***************************************************************************)
EXTENDS Integers, Sequences, FiniteSets, TLC

VARIABLES
    debug_assertions,  \* cfg!(debug_assertions) of the build
    pc,                \* position of the current call
    op,                \* the public operation the caller invoked
    strategy,          \* the function body that is running
    graph,             \* self, the graph the call consumes
    options,           \* the options record built by the call
    stats,             \* the statistics record handed to the engine
    enc,               \* dg / sg, the encoded graph (with nodes.lab, nodes.ptn)
    orbits,            \* the orbit buffer handed to the engine
    engine,            \* the engine the call has invoked
    result,            \* what the call returned
    g0,                \* the graph whose calls are compared (SpecRepeat)
    ref                \* the first completed call on g0 (SpecRepeat)

vars == <<debug_assertions, pc, op, strategy, graph, options, stats, enc,
          orbits, engine, result, g0, ref>>

-----------------------------------------------------------------------------
(* Bounds of the model *)

MaxN == 3
MaxEdges == 1
MaxRepeatN == 2

\* vertex and edge weights: 1 stands for the default weight, 2 for a
\* distinguished one
Weights == {1, 2}

-----------------------------------------------------------------------------
(* Constants imported from nauty_Traces_sys *)

FALSE_ == 0
TRUE_ == 1
NTOOBIG == 1
MTOOBIG == 2
CANONGNIL == 3
NAUABORTED == 4
NAUKILLED == 5
WORDSIZE == 64

\* The statuses an engine can leave in errstatus
EngineStatuses == {0, NTOOBIG, MTOOBIG, CANONGNIL, NAUABORTED, NAUKILLED}

\* the statuses of the calls that are repeated on equal graphs
RepeatStatuses == {0, NTOOBIG}

-----------------------------------------------------------------------------
(* Fixed-width integers.  TLC's integers are 32-bit signed, so a u32 is   *)
(* kept as its two 16-bit halves; a c_int is a TLC integer.                *)

Half == 65536
I32Min == -2147483647 - 1
I32Max == 2147483647

\* `x as u32` for a c_int x: two's-complement reinterpretation
AsU32(x) ==
    IF x >= 0
    THEN [hi |-> x \div Half, lo |-> x % Half]
    ELSE LET y == (x + I32Max) + 1   \* x + 2^31, in 0 .. 2^31 - 1
         IN  [hi |-> 32768 + (y \div Half), lo |-> y % Half]

\* `u as i32` for a u32 u
AsI32(u) ==
    IF u.hi < 32768
    THEN u.hi * Half + u.lo
    ELSE (u.hi - Half) * Half + u.lo

\* the value of a u32 that is below 2^31
U32Val(u) == u.hi * Half + u.lo

U32Zero == [hi |-> 0, lo |-> 0]

-----------------------------------------------------------------------------
(* Autom and the result adapters *)

\* #[derive(Default)] struct Autom
AutomDefault ==
    [grpsize_base |-> 0, grpsize_exp |-> U32Zero,
     num_orbits |-> U32Zero, num_generators |-> U32Zero]

RECURSIVE Pow10(_)
Pow10(e) == IF e <= 0 THEN 1 ELSE 10 * Pow10(e - 1)

\* Autom::grpsize, for exponents whose power of ten is an integer
grpsize(a) == a.grpsize_base * Pow10(AsI32(a.grpsize_exp))

FromTracesStatsNumOrbitsFromGenerators(o) ==
    [grpsize_base |-> o.grpsize1,
     grpsize_exp |-> AsU32(o.grpsize2),
     num_orbits |-> AsU32(o.numgenerators),
     num_generators |-> AsU32(o.numorbits)]

\* impl From<TracesStats> for Autom
FromTracesStats(o) ==
    [grpsize_base |-> o.grpsize1,
     grpsize_exp |-> AsU32(o.grpsize2),
     num_orbits |-> AsU32(o.numorbits),
     num_generators |-> AsU32(o.numgenerators)]

FromStatsblkOrbitsFromGenerators(o) ==
    [grpsize_base |-> o.grpsize1,
     grpsize_exp |-> AsU32(o.grpsize2),
     num_orbits |-> AsU32(o.numgenerators),
     num_generators |-> AsU32(o.numgenerators)]

\* impl From<statsblk> for Autom
FromStatsblk(o) ==
    [grpsize_base |-> o.grpsize1,
     grpsize_exp |-> AsU32(o.grpsize2),
     num_orbits |-> AsU32(o.numorbits),
     num_generators |-> AsU32(o.numgenerators)]

-----------------------------------------------------------------------------
(* Input graphs: petgraph Graph<N, E, Ty, Ix> values.  Vertices are        *)
(* 0 .. n-1, nw is the vertex weight (N: Ord), an edge is <<source,        *)
(* target, weight>> (E: Hash + Ord).  The family is bounded: at most MaxN  *)
(* vertices, at most MaxEdges edges, no self-loops, no parallel edges.     *)

Vertices(n) == 0 .. (n - 1)

Pairs(n, directed) ==
    {p \in Vertices(n) \X Vertices(n) :
        IF directed THEN p[1] # p[2] ELSE p[1] < p[2]}

EdgeSets(n, directed, maxEdges) ==
    UNION {
        {{<<p[1], p[2], f[p]>> : p \in S} : f \in [S -> Weights]} :
        S \in {T \in SUBSET Pairs(n, directed) : Cardinality(T) <= maxEdges}}

GraphsUpTo(maxN, maxEdges) ==
    UNION {
        {[n |-> n, directed |-> d, nw |-> w, edges |-> E] :
            w \in [Vertices(n) -> Weights], E \in EdgeSets(n, d, maxEdges)} :
        n \in 0 .. maxN, d \in BOOLEAN}

NoGraph == [n |-> 0, directed |-> FALSE, nw |-> <<>>, edges |-> {<<0, 0, 0>>}]

\* Graph::is_directed
is_directed(g) == g.directed

\* the graphs of tests::simple and tests::triangle
UnitWeights(n) == [v \in Vertices(n) |-> 1]
SimpleDirected ==
    [n |-> 2, directed |-> TRUE, nw |-> UnitWeights(2), edges |-> {<<0, 1, 1>>}]
SimpleUndirected == [SimpleDirected EXCEPT !.directed = FALSE]
SimpleUndirectedWeighted == [SimpleUndirected EXCEPT !.nw[0] = 2]
TriangleDirected ==
    [n |-> 3, directed |-> TRUE, nw |-> UnitWeights(3),
     edges |-> {<<0, 1, 1>>, <<1, 2, 1>>, <<2, 0, 1>>}]
TriangleUndirected ==
    [n |-> 3, directed |-> FALSE, nw |-> UnitWeights(3),
     edges |-> {<<0, 1, 1>>, <<1, 2, 1>>, <<0, 2, 1>>}]
TriangleUndirectedWeighted ==
    [TriangleUndirected EXCEPT !.edges = {<<0, 1, 2>>, <<1, 2, 1>>, <<0, 2, 1>>}]

TestGraphs ==
    {SimpleDirected, SimpleUndirected, SimpleUndirectedWeighted,
     TriangleDirected, TriangleUndirected, TriangleUndirectedWeighted}

\* further graphs with two edges: a directed 2-cycle, a
\* directed and an undirected path whose end vertices differ in weight
ExtraGraphs ==
    {[n |-> 2, directed |-> TRUE, nw |-> UnitWeights(2),
      edges |-> {<<0, 1, 1>>, <<1, 0, 1>>}],
     [n |-> 3, directed |-> TRUE, nw |-> UnitWeights(3),
      edges |-> {<<0, 1, 1>>, <<1, 2, 1>>}],
     [n |-> 3, directed |-> FALSE, nw |-> [v \in Vertices(3) |-> IF v = 2 THEN 1 ELSE 2],
      edges |-> {<<0, 2, 1>>, <<1, 2, 1>>}]}

\* the graphs the operations are called on
Graphs == GraphsUpTo(MaxN, MaxEdges) \cup TestGraphs \cup ExtraGraphs

\* the graphs whose repeated calls are compared
RepeatGraphs == GraphsUpTo(MaxRepeatN, MaxEdges) \cup TestGraphs \cup ExtraGraphs

-----------------------------------------------------------------------------
(* The graph encodings, crate::nauty_graph (modelled from their contract) *)

\* the arcs an encoding stores: an undirected edge is a symmetric pair
Arcs(g) ==
    IF g.directed
    THEN g.edges
    ELSE g.edges \cup {<<e[2], e[1], e[3]>> : e \in g.edges}

\* nodes.lab / nodes.ptn: the vertices ordered by weight, a cell per weight
NodesFrom(g) ==
    LET Before(u, v) == \/ g.nw[u] < g.nw[v]
                        \/ g.nw[u] = g.nw[v] /\ u < v
        Pos(v) == 1 + Cardinality({u \in Vertices(g.n) : Before(u, v)})
        lab == [i \in 1 .. g.n |-> CHOOSE v \in Vertices(g.n) : Pos(v) = i]
    IN  [lab |-> lab,
         ptn |-> [i \in 1 .. g.n |->
                    IF i < g.n /\ g.nw[lab[i]] = g.nw[lab[i + 1]] THEN 1 ELSE 0]]

\* SETWORDSNEEDED(n)
SetWordsNeeded(n) == (n + WORDSIZE - 1) \div WORDSIZE

\* DenseGraph::from(self): n, m and a row of neighbours per vertex
DenseGraphFrom(g) ==
    [kind |-> "dense",
     n |-> g.n,
     m |-> SetWordsNeeded(g.n),
     g |-> [v \in Vertices(g.n) |->
              {<<a[2], a[3]>> : a \in {b \in Arcs(g) : b[1] = v}}],
     nodes |-> NodesFrom(g)]

\* a set of <<neighbour, weight>> pairs as a list, ordered
SortedList(S) ==
    LET Less(x, y) == x[1] < y[1] \/ (x[1] = y[1] /\ x[2] < y[2])
        Pos(x) == 1 + Cardinality({y \in S : Less(y, x)})
    IN  [i \in 1 .. Cardinality(S) |-> CHOOSE x \in S : Pos(x) = i]

RECURSIVE Concat(_, _, _)
Concat(rows, v, n) ==
    IF v >= n THEN <<>> ELSE rows[v] \o Concat(rows, v + 1, n)

RECURSIVE Offset(_, _)
Offset(rows, v) ==
    IF v = 0 THEN 0 ELSE Offset(rows, v - 1) + Len(rows[v - 1])

\* SparseGraph::from(self): offsets v, degrees d, neighbour list e
SparseGraphFrom(g) ==
    LET rows == [v \in Vertices(g.n) |->
                   SortedList({<<a[2], a[3]>> : a \in {b \in Arcs(g) : b[1] = v}})]
    IN  [kind |-> "sparse",
         g |-> [v |-> [i \in Vertices(g.n) |-> Offset(rows, i)],
                d |-> [i \in Vertices(g.n) |-> Len(rows[i])],
                e |-> Concat(rows, 0, g.n)],
         nodes |-> NodesFrom(g)]

NoEnc == [kind |-> "none"]

\* the number of vertices of an encoding: dg.n, sg.g.v.len()
EncN(e) == IF e.kind = "dense" THEN e.n ELSE Cardinality(DOMAIN e.g.v)

\* vec![0; n]
ZeroVec(n) == [i \in 1 .. n |-> 0]

-----------------------------------------------------------------------------
(* The engines densenauty, sparsenauty and Traces (nauty_Traces_sys),      *)
(* modelled from their contract: the record is populated with the order    *)
(* and the orbits of the automorphism group of the encoded graph under the *)
(* colouring lab/ptn; on a nonzero status only errstatus is written.       *)

\* the arcs <<u, v, weight>> an engine reads from the encoding
EncArcs(e) ==
    IF e.kind = "dense"
    THEN UNION {{<<v, a[1], a[2]>> : a \in e.g[v]} : v \in DOMAIN e.g}
    ELSE UNION {{<<v, e.g.e[k][1], e.g.e[k][2]>> :
                    k \in (e.g.v[v] + 1) .. (e.g.v[v] + e.g.d[v])} :
                v \in DOMAIN e.g.v}

\* the cell of the partition lab/ptn that holds vertex v
CellOf(nodes, v) ==
    LET i == CHOOSE j \in DOMAIN nodes.lab : nodes.lab[j] = v
    IN  Cardinality({j \in 1 .. (i - 1) : nodes.ptn[j] = 0})

\* with digraph = FALSE the engine takes the adjacency to be symmetric
EngineArcs(e, opts) ==
    IF opts.digraph = TRUE_
    THEN EncArcs(e)
    ELSE EncArcs(e) \cup {<<a[2], a[1], a[3]>> : a \in EncArcs(e)}

\* the permutations of n vertices
Perms ==
    [n \in 0 .. MaxN |->
        {p \in [Vertices(n) -> Vertices(n)] :
            \A u, v \in Vertices(n) : p[u] = p[v] => u = v}]

\* the permutations of the vertices that keep every cell and every arc
Automorphisms(e, opts) ==
    LET V == Vertices(EncN(e))
        A == EngineArcs(e, opts)
        cell == [v \in V |-> CellOf(e.nodes, v)]
    IN  {p \in Perms[EncN(e)] :
            /\ \A v \in V : cell[p[v]] = cell[v]
            /\ \A a \in A : <<p[a[1]], p[a[2]], a[3]>> \in A}

\* orbits[v]: the least vertex of the orbit of v
OrbitsOf(n, aut) ==
    [i \in 1 .. n |->
        LET orb == {p[i - 1] : p \in aut}
        IN  CHOOSE v \in orb : \A u \in orb : v <= u]

NumOrbits(n, orb) == Cardinality({i \in 1 .. n : orb[i] = i - 1})

\* what an engine leaves in the statistics record st and the orbit buffer
\* buf it was handed
EngineRun(e, opts, st, buf, status) ==
    IF status # 0
    THEN [stats |-> [st EXCEPT !.errstatus = status], orbits |-> buf]
    ELSE LET n == EncN(e)
             aut == Automorphisms(e, opts)
             orb == OrbitsOf(n, aut)
             k == NumOrbits(n, orb)
         IN  [stats |-> [grpsize1 |-> Cardinality(aut),
                         grpsize2 |-> 0,
                         numorbits |-> k,
                         numgenerators |-> n - k,
                         errstatus |-> 0],
              orbits |-> orb]

-----------------------------------------------------------------------------
(* The strategies of src/autom.rs *)

Ops == {"try_into_autom", "try_into_autom_nauty_dense",
        "try_into_autom_nauty_sparse", "try_into_autom_traces"}

try_into_autom_via_sparse == "try_into_autom_nauty_sparse"

\* TryIntoAutom::try_into_autom: the body it runs
try_into_autom == "try_into_autom_nauty_dense"

\* the function body an operation runs
Body(o) == IF o = "try_into_autom" THEN try_into_autom ELSE o

SparseOptionsNeverDigraph(g) ==
    [getcanon |-> FALSE_, defaultptn |-> FALSE_, digraph |-> FALSE_]

\* optionblk::default_sparse() with getcanon, defaultptn, digraph set
SparseOptions(g) ==
    [getcanon |-> FALSE_,
     defaultptn |-> FALSE_,
     digraph |-> IF is_directed(g) THEN TRUE_ ELSE FALSE_]

DenseOptionsInverted(g) ==
    [getcanon |-> FALSE_,
     defaultptn |-> FALSE_,
     digraph |-> IF is_directed(g) THEN FALSE_ ELSE TRUE_]

\* optionblk { getcanon, defaultptn, digraph, ..Default::default() }
DenseOptions(g) ==
    [getcanon |-> FALSE_,
     defaultptn |-> FALSE_,
     digraph |-> IF is_directed(g) THEN TRUE_ ELSE FALSE_]

TracesOptionsFromGraph(g) ==
    [getcanon |-> FALSE_,
     defaultptn |-> FALSE_,
     digraph |-> IF is_directed(g) THEN TRUE_ ELSE FALSE_]

\* TracesOptions { getcanon, defaultptn, digraph: TRUE, ..Default::default() }
TracesOptions(g) ==
    [getcanon |-> FALSE_, defaultptn |-> FALSE_, digraph |-> TRUE_]

NoOptions == [getcanon |-> -1, defaultptn |-> -1, digraph |-> -1]

OptionsOf(s, g) ==
    CASE s = "try_into_autom_nauty_dense" -> DenseOptions(g)
      [] s = "try_into_autom_nauty_sparse" -> SparseOptions(g)
      [] s = "try_into_autom_traces" -> TracesOptions(g)

StatsLeftOver == stats

\* statsblk::default()
StatsblkDefault ==
    [grpsize1 |-> 0, grpsize2 |-> 0, numorbits |-> 0, numgenerators |-> 0,
     errstatus |-> 0]

\* TracesStats::default()
TracesStatsDefault ==
    [grpsize1 |-> 0, grpsize2 |-> 0, numorbits |-> 0, numgenerators |-> 0,
     errstatus |-> 0]

StatsOf(s) ==
    IF s = "try_into_autom_traces" THEN TracesStatsDefault ELSE StatsblkDefault

EncodingOf(s, g) ==
    IF s = "try_into_autom_nauty_dense"
    THEN DenseGraphFrom(g)
    ELSE SparseGraphFrom(g)

EngineOf(s) ==
    CASE s = "try_into_autom_nauty_dense" -> "densenauty"
      [] s = "try_into_autom_nauty_sparse" -> "sparsenauty"
      [] s = "try_into_autom_traces" -> "Traces"

\* Result<Autom, Self::Error> values, and a panic
Ok(a) == [tag |-> "Ok", autom |-> a, err |-> "none"]
Err(e) == [tag |-> "Err", autom |-> AutomDefault, err |-> e]
Panic == [tag |-> "Panic", autom |-> AutomDefault, err |-> "none"]
NoResult == [tag |-> "None", autom |-> AutomDefault, err |-> "none"]

DenseOutcomeSwapped(st) ==
    CASE st.errstatus = 0 -> Ok(FromStatsblk(st))
      [] st.errstatus = MTOOBIG -> Err("NTooBig")
      [] st.errstatus = NTOOBIG -> Err("MTooBig")
      [] OTHER -> Panic

\* match stats.errstatus { 0, MTOOBIG, NTOOBIG, _ => unreachable!() }
DenseOutcome(st) ==
    CASE st.errstatus = 0 -> Ok(FromStatsblk(st))
      [] st.errstatus = MTOOBIG -> Err("MTooBig")
      [] st.errstatus = NTOOBIG -> Err("NTooBig")
      [] OTHER -> Panic

SparseOutcomeLikeDense(st, dbg) == DenseOutcome(st)

\* debug_assert_eq!(stats.errstatus, 0); Ok(stats.into())
SparseOutcome(st, dbg) ==
    IF dbg /\ st.errstatus # 0 THEN Panic ELSE Ok(FromStatsblk(st))

TracesOutcomeUnchecked(st, dbg) == Ok(FromTracesStats(st))

\* debug_assert_eq!(stats.errstatus, 0); Ok(stats.into())
TracesOutcome(st, dbg) ==
    IF dbg /\ st.errstatus # 0 THEN Panic ELSE Ok(FromTracesStats(st))

OutcomeOf(s, st, dbg) ==
    CASE s = "try_into_autom_nauty_dense" -> DenseOutcome(st)
      [] s = "try_into_autom_nauty_sparse" -> SparseOutcome(st, dbg)
      [] s = "try_into_autom_traces" -> TracesOutcome(st, dbg)

-----------------------------------------------------------------------------
(* The state machine of a call: idle -> configured -> invoked ->           *)
(* returned / panicked.  Spec is one call of any operation on any graph;   *)
(* SpecRepeat is a sequence of calls, each one dropped before the next.    *)

\* storage no call has written yet
NoStats ==
    [grpsize1 |-> -1, grpsize2 |-> -1, numorbits |-> -1, numgenerators |-> -1,
     errstatus |-> -1]

NoRef == [op |-> "none", status |-> -1, result |-> NoResult]

\* the graphs of the calls made between two compared calls
Distractors == {TriangleUndirected}

InitCall ==
    /\ pc = "idle"
    /\ op = "none"
    /\ strategy = "none"
    /\ graph = NoGraph
    /\ options = NoOptions
    /\ stats = NoStats
    /\ enc = NoEnc
    /\ orbits = <<>>
    /\ engine = "none"
    /\ result = NoResult
    /\ ref = NoRef

Init ==
    /\ debug_assertions \in BOOLEAN
    /\ g0 = NoGraph
    /\ InitCall

\* the caller invokes operation o on graph g; the body builds its options
\* record, statistics record, encoding and orbit buffer
Configure(o, g) ==
    /\ pc = "idle"
    /\ pc' = "configured"
    /\ op' = o
    /\ strategy' = Body(o)
    /\ graph' = g
    /\ options' = OptionsOf(Body(o), g)
    /\ stats' = StatsOf(Body(o))
    /\ LET e == EncodingOf(Body(o), g)
       IN  enc' = e /\ orbits' = ZeroVec(EncN(e))
    /\ engine' = "none"
    /\ result' = NoResult
    /\ UNCHANGED <<debug_assertions, g0, ref>>

\* the unsafe block: the engine runs and leaves status in errstatus
Invoke(status) ==
    /\ pc = "configured"
    /\ pc' = "invoked"
    /\ engine' = EngineOf(strategy)
    /\ LET out == EngineRun(enc, options, stats, orbits, status)
       IN  stats' = out.stats /\ orbits' = out.orbits
    /\ UNCHANGED <<debug_assertions, op, strategy, graph, options, enc, result,
                   g0, ref>>

\* the body classifies the outcome and returns or panics
Classify ==
    /\ pc = "invoked"
    /\ LET out == OutcomeOf(strategy, stats, debug_assertions)
       IN  /\ result' = out
           /\ pc' = IF out.tag = "Panic" THEN "panicked" ELSE "returned"
    /\ UNCHANGED <<debug_assertions, op, strategy, graph, options, stats, enc,
                   orbits, engine, g0, ref>>

\* the call is over: its locals are dropped.  The storage of the statistics
\* record is not cleared; the next call writes a default record into it.
Drop ==
    /\ pc \in {"returned", "panicked"}
    /\ pc' = "idle"
    /\ op' = "none"
    /\ strategy' = "none"
    /\ graph' = NoGraph
    /\ options' = NoOptions
    /\ enc' = NoEnc
    /\ orbits' = <<>>
    /\ engine' = "none"
    /\ result' = NoResult
    /\ ref' = IF ref = NoRef /\ graph = g0
              THEN [op |-> op, status |-> stats.errstatus, result |-> result]
              ELSE ref
    /\ UNCHANGED <<debug_assertions, stats, g0>>

Next ==
    \/ pc = "idle" /\ \E o \in Ops, g \in Graphs : Configure(o, g)
    \/ pc = "configured" /\ \E status \in EngineStatuses : Invoke(status)
    \/ Classify

Spec == Init /\ [][Next]_vars

(* Repeated calls on equal copies of one graph g0, with calls on other     *)
(* graphs in between; the first completed call on g0 is kept in ref.       *)

InitRepeat ==
    /\ debug_assertions \in BOOLEAN
    /\ g0 \in RepeatGraphs
    /\ InitCall

NextRepeat ==
    \/ pc = "idle" /\ \E o \in Ops, g \in {g0} \cup Distractors : Configure(o, g)
    \/ pc = "configured" /\ \E status \in RepeatStatuses : Invoke(status)
    \/ Classify
    \/ Drop

SpecRepeat == InitRepeat /\ [][NextRepeat]_vars

(* The result adapters applied to arbitrary statistics records *)

SampleInts == {I32Min, -65536, -1, 0, 1, 3, 65535, 65536, I32Max}

SampleStats ==
    [grpsize1 : {0, 1, 6}, grpsize2 : SampleInts, numorbits : SampleInts,
     numgenerators : SampleInts, errstatus : {0}]

InitConv ==
    /\ debug_assertions \in BOOLEAN
    /\ g0 = NoGraph
    /\ pc = "idle"
    /\ op = "none"
    /\ strategy = "none"
    /\ graph = NoGraph
    /\ options = NoOptions
    /\ stats \in SampleStats
    /\ enc = NoEnc
    /\ orbits = <<>>
    /\ engine = "none"
    /\ result = NoResult
    /\ ref = NoRef

\* Autom::from(o) for a statsblk o
ConvertStatsblk ==
    /\ pc = "idle"
    /\ pc' = "converted"
    /\ op' = "From<statsblk>"
    /\ result' = Ok(FromStatsblk(stats))
    /\ UNCHANGED <<debug_assertions, strategy, graph, options, stats, enc,
                   orbits, engine, g0, ref>>

\* Autom::from(o) for a TracesStats o
ConvertTracesStats ==
    /\ pc = "idle"
    /\ pc' = "converted"
    /\ op' = "From<TracesStats>"
    /\ result' = Ok(FromTracesStats(stats))
    /\ UNCHANGED <<debug_assertions, strategy, graph, options, stats, enc,
                   orbits, engine, g0, ref>>

NextConv == ConvertStatsblk \/ ConvertTracesStats

SpecConv == InitConv /\ [][NextConv]_vars

-----------------------------------------------------------------------------
(* Properties *)

Dense == "try_into_autom_nauty_dense"
Sparse == "try_into_autom_nauty_sparse"
Traces == "try_into_autom_traces"

Finished == pc \in {"returned", "panicked"}

\* the Autom a is, field by field, the statistics record st (all fields of
\* st being non-negative)
SameFields(a, st) ==
    /\ a.grpsize_base = st.grpsize1
    /\ U32Val(a.grpsize_exp) = st.grpsize2
    /\ U32Val(a.num_orbits) = st.numorbits
    /\ U32Val(a.num_generators) = st.numgenerators

\* what a dense call must have produced from the record the engine left
DenseContract ==
    /\ stats.errstatus = 0 =>
          pc = "returned" /\ result.tag = "Ok" /\ SameFields(result.autom, stats)
    /\ stats.errstatus = MTOOBIG =>
          pc = "returned" /\ result.tag = "Err" /\ result.err = "MTooBig"
    /\ stats.errstatus = NTOOBIG =>
          pc = "returned" /\ result.tag = "Err" /\ result.err = "NTooBig"
    /\ stats.errstatus \notin {0, MTOOBIG, NTOOBIG} =>
          pc = "panicked" /\ result.tag \notin {"Ok", "Err"}

\* C1: a finished dense call returned Ok(Autom of the record) for errstatus
\* 0, Err(MTooBig) for MTOOBIG, Err(NTooBig) for NTOOBIG (two distinct
\* errors), and for any other errstatus returned nothing and panicked.
C1_DenseClassifies ==
    (Finished /\ strategy = Dense) =>
        /\ DenseContract
        /\ result.tag = "Err" =>
              (result.err = "MTooBig") # (result.err = "NTooBig")

C1_Witness ==
    /\ pc = "panicked" /\ op = Dense /\ stats.errstatus = NAUABORTED
    /\ graph = TriangleUndirected

\* C2: a call of try_into_autom runs the dense body: the only engine it
\* invokes is densenauty, with the dense options, and it finishes with what
\* the dense strategy makes of the record the engine left.
C2_DefaultIsDense ==
    op = "try_into_autom" =>
        /\ strategy = Dense
        /\ engine \in {"none", "densenauty"}
        /\ pc = "invoked" => engine = "densenauty" /\ enc.kind = "dense"
        /\ Finished => DenseContract

C2_Witness ==
    /\ op = "try_into_autom" /\ pc = "returned" /\ result.tag = "Err"
    /\ result.err = "NTooBig" /\ engine = "densenauty"

\* an edge of weight w joins u to v
HasEdge(g, u, v, w) ==
    \/ <<u, v, w>> \in g.edges
    \/ ~g.directed /\ <<v, u, w>> \in g.edges

\* the vertex permutations that preserve vertex weights, adjacency, edge
\* weights and, in a directed graph, direction
StructurePreserving(g) ==
    {p \in Perms[g.n] :
        /\ \A v \in Vertices(g.n) : g.nw[p[v]] = g.nw[v]
        /\ \A u, v \in Vertices(g.n), w \in Weights :
              HasEdge(g, u, v, w) <=> HasEdge(g, p[u], p[v], w)}

\* C3: when the dense engine reports no error, try_into_autom returns Ok
\* with group order grpsize_base * 10^grpsize_exp equal to the number of
\* structure-preserving vertex permutations; the six graphs of the tests
\* give 1, 2, 1, 3, 6 and 2 with exponent 0.
C3_GroupOrder ==
    (op = "try_into_autom" /\ Finished /\ stats.errstatus = 0) =>
        /\ pc = "returned" /\ result.tag = "Ok"
        /\ grpsize(result.autom) = Cardinality(StructurePreserving(graph))
        /\ graph \in TestGraphs => result.autom.grpsize_exp = U32Zero
        /\ graph = SimpleDirected => result.autom.grpsize_base = 1
        /\ graph = SimpleUndirected => result.autom.grpsize_base = 2
        /\ graph = SimpleUndirectedWeighted => result.autom.grpsize_base = 1
        /\ graph = TriangleDirected => result.autom.grpsize_base = 3
        /\ graph = TriangleUndirected => result.autom.grpsize_base = 6
        /\ graph = TriangleUndirectedWeighted => result.autom.grpsize_base = 2

C3_Witness ==
    /\ op = "try_into_autom" /\ pc = "returned" /\ result.tag = "Ok"
    /\ graph = TriangleUndirectedWeighted /\ result.autom.grpsize_base = 2

\* C4: when a strategy invokes its engine the options record has getcanon =
\* FALSE and defaultptn = FALSE; digraph is TRUE exactly for directed graphs
\* in the dense and the sparse strategy, and TRUE always in the Traces one.
C4_OptionsAtInvocation ==
    pc \in {"configured", "invoked"} =>
        /\ options.getcanon = FALSE_
        /\ options.defaultptn = FALSE_
        /\ strategy \in {Dense, Sparse} =>
              /\ graph.directed => options.digraph = TRUE_
              /\ ~graph.directed => options.digraph = FALSE_
        /\ strategy = Traces => options.digraph = TRUE_

C4_Witness ==
    /\ pc = "invoked" /\ strategy = Traces /\ engine = "Traces"
    /\ ~graph.directed /\ graph.n = 2 /\ options.digraph = TRUE_

\* C5: the sparse and the Traces strategy never hold an Err value, and what
\* they return is Ok of the Autom whose fields are those of the record.
C5_NoErrorChannel ==
    strategy \in {Sparse, Traces} =>
        /\ result.tag # "Err"
        /\ pc = "returned" =>
              result.tag = "Ok" /\ SameFields(result.autom, stats)

C5_Witness ==
    /\ strategy = Sparse /\ pc = "returned" /\ result.tag = "Ok"
    /\ stats.errstatus = 0 /\ graph = TriangleDirected

IsU32(u) == u.hi \in 0 .. (Half - 1) /\ u.lo \in 0 .. (Half - 1)

\* the u32 u is the c_int x narrowed: x itself when x >= 0, x + 2^32 when
\* x < 0 (the same 32 bits)
Narrowed(u, x) ==
    /\ IsU32(u)
    /\ AsI32(u) = x
    /\ x >= 0 => U32Val(u) = x
    /\ x < 0 => u.hi >= 32768

\* C6: both adapters map every record to an Autom with grpsize_base =
\* grpsize1 and the three integer fields narrowed to u32 (exact when
\* non-negative, wrapped modulo 2^32 when negative), and each adapter gives
\* what the other one gives on a record with the same field values.
C6_Adapters ==
    pc = "converted" =>
        /\ result.tag = "Ok"
        /\ result.autom.grpsize_base = stats.grpsize1
        /\ Narrowed(result.autom.grpsize_exp, stats.grpsize2)
        /\ Narrowed(result.autom.num_orbits, stats.numorbits)
        /\ Narrowed(result.autom.num_generators, stats.numgenerators)
        /\ op = "From<statsblk>" => result.autom = FromTracesStats(stats)
        /\ op = "From<TracesStats>" => result.autom = FromStatsblk(stats)

C6_Witness ==
    /\ pc = "converted" /\ op = "From<TracesStats>"
    /\ stats.numorbits = -1 /\ stats.numgenerators = 3
    /\ result.autom.num_orbits = [hi |-> 65535, lo |-> 65535]
    /\ result.autom.num_generators = [hi |-> 0, lo |-> 3]

\* the current call and the call kept in ref are a dense and a sparse call
\* on equal copies of g0 that both returned Ok from an error-free record
DenseAndSparse ==
    /\ pc = "returned" /\ graph = g0 /\ result.tag = "Ok"
    /\ stats.errstatus = 0
    /\ ref.result.tag = "Ok" /\ ref.status = 0
    /\ {strategy, ref.op} = {Dense, Sparse}

RepeatsRef ==
    /\ Finished /\ graph = g0 /\ ref # NoRef
    /\ op = ref.op /\ stats.errstatus = ref.status

C10_Original ==
    (Finished /\ strategy \in {Sparse, Traces} /\ stats.errstatus # 0) =>
        pc = "panicked" /\ result.tag # "Ok"

\* C10, amended: in a build with debug assertions a nonzero errstatus ends
\* a sparse or Traces call in an assertion failure and never in an Ok
\* value; in a build without them the check is compiled out and the call
\* returns Ok of the Autom converted from that record.
C10_DebugAssertion ==
    (Finished /\ strategy \in {Sparse, Traces} /\ stats.errstatus # 0) =>
        /\ debug_assertions => pc = "panicked" /\ result.tag # "Ok"
        /\ ~debug_assertions =>
              /\ pc = "returned" /\ result.tag = "Ok"
              /\ SameFields(result.autom, stats)

C10_Witness ==
    /\ debug_assertions /\ strategy = Traces /\ pc = "panicked"
    /\ stats.errstatus = NAUKILLED /\ result.tag = "Panic"

====
